---- MODULE Spec2Model ----
(***************************************************************************)
(* Model of VALScoreboardTracker.main (src/VALScoreboardTracker.py) and of *)
(* the configuration helpers of src/config_parser.py.                      *)
(*                                                                         *)
(* A behaviour of Spec is one start of the program; a behaviour of         *)
(* SpecTwice is the program started and then started again on the same     *)
(* machine.  The state is the part of the file system the program          *)
(* touches (Tesseract-OCR directory, config.ini, scoreboard.csv, the       *)
(* screenshots folder), the clipboard, the console, and the local          *)
(* variables and control position of main.                                 *)
(*                                                                         *)
(* ocr_library is a separate library.  Its functions are the               *)
(* environment: what they return for a screenshot is chosen when the       *)
(* screenshot is first read and is the same whenever that file is read     *)
(* again (deterministic extraction); write_csv appends to the store.       *)
(* The failures modelled are those of Tesseract setup, of the config       *)
(* parse, of extraction, of agents[i], of os.remove on temp_headshot.png   *)
(* and of opening scoreboard.csv; other calls succeed.                     *)
(* print_status lines that only announce the next stage are not recorded.  *)
(***************************************************************************)
EXTENDS Naturals, Sequences, FiniteSets, TLC

\* ---------------------------------------------------------------- bounds
\* Number of entries the screenshots folder can hold.
MaxEntries == 4
\* Number of table rows read_table_rows can return for one screenshot.
MaxRows == 2

\* ------------------------------------------------------------ environment
\* Extension of the i-th folder entry: the listing is a prefix of
\* notes.txt, 2.png, 3.PNG, 4.png, 5.txt, 6.png, ...
Exts == <<".txt", ".png", ".PNG", ".png">>

FolderEntry(i) == [id |-> i, ext |-> Exts[((i - 1) % Len(Exts)) + 1]]

Listing(n) == [i \in 1..n |-> FolderEntry(i)]

FolderStates ==
    {[kind |-> "missing", entries |-> <<>>], [kind |-> "file", entries |-> <<>>]}
        \cup {[kind |-> "dir", entries |-> Listing(n)] : n \in 0..MaxEntries}

\* Agent names identify_agents returns, by row index.
AgentNames == <<"Jett", "Sova", "Sage", "Omen", "Viper", "Reyna">>

Teams == {"team1", "team2"}

\* Map identifiers of a well-formed config.ini written by the operator.
OperatorMaps == <<"Ascent", "Bind">>

\* Rows left in scoreboard.csv by whatever ran before.
StaleRows == <<<<"31/12/2023", "Haven", "Neon", "old">>>>

\* The day datetime.now() reports: (day, month, year).
Clock == <<1, 1, 2024>>

RequiredFiles == {"tesseract.exe", "tessdata/eng.traineddata"}

TesseractStates ==
    {[exists |-> FALSE, files |-> {}]}
        \cup {[exists |-> TRUE, files |-> fs] : fs \in SUBSET RequiredFiles}

ConfigAbsent == [exists |-> FALSE, wellformed |-> FALSE, maps |-> <<>>]

ConfigStates ==
    {ConfigAbsent,
     [exists |-> TRUE, wellformed |-> FALSE, maps |-> <<>>],
     [exists |-> TRUE, wellformed |-> TRUE, maps |-> OperatorMaps]}

NoFile == [exists |-> FALSE, rows |-> <<>>]

Unread == [state |-> "unread", tags |-> <<>>, nagents |-> 0]

TagSeqs == UNION {[1..r -> Teams] : r \in 0..MaxRows}

\* What the extraction functions can answer for one screenshot: an error,
\* or a table of at most MaxRows tagged rows and at most MaxRows agents,
\* with one agent fewer than rows, as many, or one more.
Readings ==
    {[state |-> "raises", tags |-> <<>>, nagents |-> 0]}
        \cup {[state |-> "ok", tags |-> t, nagents |-> n] :
                t \in TagSeqs, n \in 0..MaxRows}

ReadingsFor(img) ==
    IF img.state = "unread"
    THEN {r \in Readings :
            r.state = "ok" =>
                /\ r.nagents + 1 >= Len(r.tags)
                /\ r.nagents <= Len(r.tags) + 1}
    ELSE {img}

VARIABLES
    pc,               \* control position in main
    run,              \* "first" or "second" start of the program
    tesseract_dir,    \* the Tesseract-OCR directory
    config_file,      \* config.ini
    scoreboard,       \* scoreboard.csv
    folder,           \* the screenshots folder
    images,           \* what extraction answers for each folder entry
    clipboard,        \* what this start has put on the clipboard
    maps, screenshots, idx, map_name, agents, output,
    merged_output, filtered_output, scoreboard_data,   \* locals of main
    exc,              \* the exception being propagated
    messages,         \* print_status lines of this start
    waits,            \* calls of wait_for_user in this start
    first_artifact    \* scoreboard.csv as the first start left it

vars == <<pc, run, tesseract_dir, config_file, scoreboard, folder, images,
          clipboard, maps, screenshots, idx, map_name, agents, output,
          merged_output, filtered_output, scoreboard_data, exc, messages,
          waits, first_artifact>>

fsvars == <<tesseract_dir, config_file, scoreboard, folder, images, clipboard>>
locals == <<maps, screenshots, idx, map_name, agents, output,
            merged_output, filtered_output, scoreboard_data>>

\* ------------------------------------------------------------ pure helpers
Pad2(n) == IF n < 10 THEN "0" \o ToString(n) ELSE ToString(n)

\* datetime.now().strftime("%d/%m/%Y")
FormatDate(c) == Pad2(c[1]) \o "/" \o Pad2(c[2]) \o "/" \o ToString(c[3])

\* str.lower() on the extensions that occur
Lower(s) == IF s = ".PNG" THEN ".png" ELSE s

\* f.lower().endswith(".png")
IsScreenshot(f) == Lower(f.ext) = ".png"

\* verify_tesseract_files
verify_tesseract_files(dir) == \A f \in RequiredFiles : f \in dir.files

\* setup_tesseract
setup_tesseract(dir) == dir.exists /\ verify_tesseract_files(dir)

\* find_map_name(image, maps): a name drawn from maps
FindMapName(id, ms) ==
    IF ms = <<>> THEN "Unknown" ELSE ms[((id - 1) % Len(ms)) + 1]

\* The texts the cells of the tables can hold.
CellTexts == [n \in 0..(10 * MaxEntries + MaxRows) |-> ToString(n)]

\* The cells read_table_rows reads for row i of screenshot id: two cells
\* in odd rows, one in even rows, the first one unique to the row.
PlayerFields(id, i) ==
    IF i % 2 = 1 THEN <<CellTexts[10 * id + i], CellTexts[i]>>
    ELSE <<CellTexts[10 * id + i]>>

\* read_table_rows: team tag first, then the player fields
ReadTableRows(id, img) ==
    [i \in 1..Len(img.tags) |-> <<img.tags[i]>> \o PlayerFields(id, i)]

\* identify_agents
IdentifyAgents(img) == SubSeq(AgentNames, 1, img.nagents)

\* ------------------------------------------------------- the row transform
\* As MergeRows, but the agent is taken by the row's position among the
\* team1 rows, as if agents were attached after filtering.
MergeRowsAfterFilter(out, ags, date, mname) ==
    [i \in 1..(IF Len(ags) < Len(out) THEN Len(ags) ELSE Len(out)) |->
        <<date, out[i][1], mname,
          ags[IF out[i][1] = "team1"
              THEN Cardinality({k \in 1..i : out[k][1] = "team1"})
              ELSE i]>> \o Tail(out[i])]

\* Lines 150-158: one merged row per row of output, agent taken by index.
\* The rows built before agents[i] fails are those with an agent.
MergeRows(out, ags, date, mname) ==
    [i \in 1..(IF Len(ags) < Len(out) THEN Len(ags) ELSE Len(out)) |->
        <<date, out[i][1], mname, ags[i]>> \o Tail(out[i])]

\* agents[i] raises IndexError when there are fewer agents than rows.
MergeFails(out, ags) == Len(ags) < Len(out)

IsTeam1(row) == row[2] = "team1"

\* As FilterTeam1, but every merged row is kept.
FilterNothing(merged) == merged

\* Line 162: [row for row in merged_output if row[1] == 'team1']
FilterTeam1(merged) == SelectSeq(merged, IsTeam1)

\* Line 170: [[row[0], row[2], row[3]] + row[4:] for row in filtered_output]
CleanRows(filtered) ==
    [j \in 1..Len(filtered) |->
        <<filtered[j][1], filtered[j][3], filtered[j][4]>>
            \o SubSeq(filtered[j], 5, Len(filtered[j]))]

\* srf.write_csv: the rows go after what the store already holds.
write_csv(sb, rows) == [exists |-> TRUE, rows |-> sb.rows \o rows]

\* As RemoveOld, but the old file stays.
RemoveOldKeeps(sb) == sb

\* Lines 117-118: os.remove(scoreboard_path)
RemoveOld(sb) == NoFile

\* ------------------------------------------------------------ control flow
\* As ForNext, but a file name is passed over whenever two are left.
ForNextSkips(i, shots) ==
    IF i + 1 < Len(shots) THEN [pc |-> "extract", idx |-> i + 2]
    ELSE IF i < Len(shots) THEN [pc |-> "extract", idx |-> i + 1]
    ELSE [pc |-> "cleanup", idx |-> i]

\* Line 125: the for statement takes the next file name or leaves the loop.
ForNext(i, shots) ==
    IF i < Len(shots) THEN [pc |-> "extract", idx |-> i + 1]
    ELSE [pc |-> "cleanup", idx |-> i]

\* As Propagate, but the exception is caught inside the loop and the loop
\* goes on with the next file.
PropagateCaughtInLoop(e, i, shots) ==
    [pc |-> ForNext(i, shots).pc, idx |-> ForNext(i, shots).idx, exc |-> e]

\* Lines 93-94, 193: an exception raised inside the try block of main
\* leaves the block for the except clause.
Propagate(e, i, shots) == [pc |-> "except", idx |-> i, exc |-> e]

Say(msgs) == messages' = messages \o msgs

\* Line 191.
SuccessMsg == "Processing completed successfully!"

\* create_config: config.ini with the defaults, maps = [].
DefaultConfig == [exists |-> TRUE, wellformed |-> TRUE, maps |-> <<>>]

\* read_config: json.loads(config.get('General', 'maps'))
read_config(cf) == cf.maps

FreshLocals ==
    /\ maps = <<>> /\ screenshots = <<>> /\ idx = 0 /\ map_name = ""
    /\ agents = <<>> /\ output = <<>> /\ merged_output = <<>>
    /\ filtered_output = <<>> /\ scoreboard_data = <<>>

Init ==
    /\ pc = "setup"
    /\ run = "first"
    /\ tesseract_dir \in TesseractStates
    /\ config_file \in ConfigStates
    /\ scoreboard \in {NoFile, [exists |-> TRUE, rows |-> StaleRows]}
    /\ folder \in FolderStates
    /\ images = [i \in 1..MaxEntries |-> Unread]
    /\ clipboard = [copied |-> FALSE, data |-> <<>>]
    /\ FreshLocals
    /\ exc = "none"
    /\ messages = <<>>
    /\ waits = 0
    /\ first_artifact = NoFile

\* Lines 95-100.
Setup ==
    /\ pc = "setup"
    /\ IF setup_tesseract(tesseract_dir)
       THEN /\ pc' = "config"
            /\ Say(<<"Initializing">>)
       ELSE /\ pc' = "ack_setup"
            /\ Say(<<"Initializing", "Failed to initialize Tesseract OCR">>)
    /\ UNCHANGED <<run, fsvars, locals, exc, waits, first_artifact>>

\* Line 99-100: wait_for_user() and return, which enters the finally clause.
AckSetup ==
    /\ pc = "ack_setup"
    /\ waits' = waits + 1
    /\ pc' = "finally"
    /\ UNCHANGED <<run, fsvars, locals, exc, messages, first_artifact>>

\* Lines 107-115.
LoadConfig ==
    /\ pc = "config"
    /\ IF config_file.exists
       THEN IF config_file.wellformed
            THEN /\ maps' = read_config(config_file)
                 /\ Say(<<"Configuration loaded successfully">>)
                 /\ pc' = "reset"
                 /\ UNCHANGED <<config_file, exc>>
            ELSE /\ exc' = "ConfigError"
                 /\ pc' = Propagate("ConfigError", idx, screenshots).pc
                 /\ UNCHANGED <<config_file, maps, messages>>
       ELSE /\ config_file' = DefaultConfig
            /\ maps' = read_config(DefaultConfig)
            /\ Say(<<"Creating new configuration file">>)
            /\ pc' = "reset"
            /\ UNCHANGED exc
    /\ UNCHANGED <<run, tesseract_dir, scoreboard, folder, images, clipboard,
                   screenshots, idx, map_name, agents, output, merged_output,
                   filtered_output, scoreboard_data, waits, first_artifact>>

\* Lines 117-119.
ResetStore ==
    /\ pc = "reset"
    /\ IF scoreboard.exists
       THEN /\ scoreboard' = RemoveOld(scoreboard)
            /\ Say(<<"Removed old scoreboard file">>)
       ELSE UNCHANGED <<scoreboard, messages>>
    /\ pc' = "enumerate"
    /\ UNCHANGED <<run, tesseract_dir, config_file, folder, images, clipboard,
                   locals, exc, waits, first_artifact>>

\* Lines 121-125 and 175-177.
Enumerate ==
    /\ pc = "enumerate"
    /\ IF folder.kind = "dir"
       THEN /\ screenshots' = SelectSeq(folder.entries, IsScreenshot)
            /\ Say(<<"Found " \o ToString(Len(screenshots')) \o " screenshots">>)
            /\ pc' = ForNext(0, screenshots').pc
            /\ idx' = ForNext(0, screenshots').idx
       ELSE /\ Say(<<"No screenshots folder found or no PNG files to process">>)
            /\ pc' = "finally"
            /\ UNCHANGED <<screenshots, idx>>
    /\ UNCHANGED <<run, fsvars, maps, map_name, agents, output, merged_output,
                   filtered_output, scoreboard_data, exc, waits, first_artifact>>

\* Lines 126-147: the calls into ocr_library for screenshots[idx].
Extract ==
    /\ pc = "extract"
    /\ LET id == screenshots[idx].id IN
       \E r \in ReadingsFor(images[id]) :
          /\ images' = [images EXCEPT ![id] = r]
          /\ IF r.state = "raises"
             THEN /\ exc' = Propagate("TableNotFoundError", idx, screenshots).exc
                  /\ pc' = Propagate("TableNotFoundError", idx, screenshots).pc
                  /\ idx' = Propagate("TableNotFoundError", idx, screenshots).idx
                  /\ UNCHANGED <<map_name, agents, output>>
             ELSE /\ map_name' = FindMapName(id, maps)
                  /\ agents' = IdentifyAgents(r)
                  /\ output' = ReadTableRows(id, r)
                  /\ pc' = "transform"
                  /\ UNCHANGED <<exc, idx>>
    /\ UNCHANGED <<run, tesseract_dir, config_file, scoreboard, folder,
                   clipboard, maps, screenshots, merged_output,
                   filtered_output, scoreboard_data, messages, waits,
                   first_artifact>>

\* Lines 149-166: merge, filter, and the warning of an empty result.
Transform ==
    /\ pc = "transform"
    /\ merged_output' = MergeRows(output, agents, FormatDate(Clock), map_name)
    /\ IF MergeFails(output, agents)
       THEN /\ exc' = Propagate("IndexError", idx, screenshots).exc
            /\ pc' = Propagate("IndexError", idx, screenshots).pc
            /\ idx' = Propagate("IndexError", idx, screenshots).idx
            /\ UNCHANGED <<filtered_output, messages>>
       ELSE /\ filtered_output' = FilterTeam1(merged_output')
            /\ IF filtered_output' = <<>>
               THEN /\ Say(<<"Warning: No team1 data found in this screenshot">>)
                    /\ pc' = ForNext(idx, screenshots).pc
                    /\ idx' = ForNext(idx, screenshots).idx
               ELSE /\ pc' = "write"
                    /\ UNCHANGED <<messages, idx>>
            /\ UNCHANGED exc
    /\ UNCHANGED <<run, fsvars, maps, screenshots, map_name, agents, output,
                   scoreboard_data, waits, first_artifact>>

\* Lines 168-173.
Write ==
    /\ pc = "write"
    /\ scoreboard' = write_csv(scoreboard, CleanRows(filtered_output))
    /\ Say(<<"Data written to CSV">>)
    /\ pc' = ForNext(idx, screenshots).pc
    /\ idx' = ForNext(idx, screenshots).idx
    /\ UNCHANGED <<run, tesseract_dir, config_file, folder, images, clipboard,
                   maps, screenshots, map_name, agents, output, merged_output,
                   filtered_output, scoreboard_data, exc, waits,
                   first_artifact>>

\* Lines 179-182: temp_headshot.png is absent, is removed, or os.remove
\* fails on it.
Cleanup ==
    /\ pc = "cleanup"
    /\ Say(<<"Cleaning up temporary files">>)
    /\ \E temp \in {"absent", "removable", "locked"} :
          IF temp = "locked"
          THEN /\ exc' = "PermissionError"
               /\ pc' = Propagate("PermissionError", idx, screenshots).pc
          ELSE /\ pc' = "read"
               /\ UNCHANGED exc
    /\ UNCHANGED <<run, fsvars, locals, waits, first_artifact>>

\* Lines 184-186.
ReadBack ==
    /\ pc = "read"
    /\ IF scoreboard.exists
       THEN /\ scoreboard_data' = scoreboard.rows
            /\ pc' = "copy"
            /\ UNCHANGED exc
       ELSE /\ exc' = "FileNotFoundError"
            /\ pc' = Propagate("FileNotFoundError", idx, screenshots).pc
            /\ UNCHANGED scoreboard_data
    /\ UNCHANGED <<run, fsvars, maps, screenshots, idx, map_name, agents,
                   output, merged_output, filtered_output, messages, waits,
                   first_artifact>>

\* Lines 188-191.
Copy ==
    /\ pc = "copy"
    /\ clipboard' = [copied |-> TRUE, data |-> scoreboard_data]
    /\ Say(<<"Scoreboard data copied to clipboard", SuccessMsg>>)
    /\ pc' = "finally"
    /\ UNCHANGED <<run, tesseract_dir, config_file, scoreboard, folder, images,
                   locals, exc, waits, first_artifact>>

\* Lines 193-195.
Except ==
    /\ pc = "except"
    /\ Say(<<"Error occurred: " \o exc>>)
    /\ pc' = "finally"
    /\ UNCHANGED <<run, fsvars, locals, exc, waits, first_artifact>>

\* Lines 197-198.
Finally ==
    /\ pc = "finally"
    /\ waits' = waits + 1
    /\ pc' = "exited"
    /\ UNCHANGED <<run, fsvars, locals, exc, messages, first_artifact>>

\* Lines 200-201: the operator starts the program a second time.
Rerun ==
    /\ pc = "exited"
    /\ run = "first"
    /\ run' = "second"
    /\ first_artifact' = scoreboard
    /\ pc' = "setup"
    /\ maps' = <<>> /\ screenshots' = <<>> /\ idx' = 0 /\ map_name' = ""
    /\ agents' = <<>> /\ output' = <<>> /\ merged_output' = <<>>
    /\ filtered_output' = <<>> /\ scoreboard_data' = <<>>
    /\ exc' = "none"
    /\ messages' = <<>>
    /\ waits' = 0
    /\ clipboard' = [copied |-> FALSE, data |-> <<>>]
    /\ UNCHANGED <<tesseract_dir, config_file, scoreboard, folder, images>>

\* One start of the program.
Next ==
    \/ Setup \/ AckSetup \/ LoadConfig \/ ResetStore \/ Enumerate
    \/ Extract \/ Transform \/ Write
    \/ Cleanup \/ ReadBack \/ Copy \/ Except \/ Finally

Spec == Init /\ [][Next]_vars

\* The program started, and started again once it has exited.
NextTwice ==
    \/ Setup \/ AckSetup \/ LoadConfig \/ ResetStore \/ Enumerate
    \/ Extract \/ Transform \/ Write
    \/ Cleanup \/ ReadBack \/ Copy \/ Except \/ Finally
    \/ Rerun

SpecTwice == Init /\ [][NextTwice]_vars

\* ------------------------------------------------- vocabulary of the claims
ErrorMsg(e) == "Error occurred: " \o e

Said(m) == \E k \in 1..Len(messages) : messages[k] = m

Failures == {"ConfigError", "TableNotFoundError", "IndexError",
             "PermissionError", "FileNotFoundError"}

ReportedError == \E e \in Failures : Said(ErrorMsg(e))

\* This start has gone through lines 117-119.
PastReset ==
    /\ setup_tesseract(tesseract_dir)
    /\ pc \notin {"setup", "config", "reset"}
    /\ exc # "ConfigError"

InIteration == pc \in {"extract", "transform", "write"}

\* Number of screenshots whose iteration of the loop has ended normally.
Completed ==
    IF InIteration \/ exc \in {"TableNotFoundError", "IndexError"}
    THEN idx - 1 ELSE idx

ShotId(j) == screenshots[j].id

TagsOf(j) == images[ShotId(j)].tags

Team1Idx(j) == {i \in 1..Len(TagsOf(j)) : TagsOf(j)[i] = "team1"}

\* The row the spec asks for from raw row i of the j-th screenshot.
ExpectedRow(j, i) ==
    <<"01/01/2024", FindMapName(ShotId(j), maps), AgentNames[i]>>
        \o PlayerFields(ShotId(j), i)

\* rows(X): the clean rows of the j-th screenshot among raw rows 1..n.
RECURSIVE RowsThrough(_, _)
RowsThrough(j, n) ==
    IF n = 0 THEN <<>>
    ELSE RowsThrough(j, n - 1)
            \o (IF TagsOf(j)[n] = "team1" THEN <<ExpectedRow(j, n)>> ELSE <<>>)

\* rows(1) ++ ... ++ rows(k)
RECURSIVE StoreThrough(_)
StoreThrough(k) ==
    IF k = 0 THEN <<>>
    ELSE StoreThrough(k - 1) \o RowsThrough(k, Len(TagsOf(k)))

\* The first player cell of raw row i of the j-th screenshot; no other raw
\* row of the batch has it, so it tells where a stored row comes from.
Origin(j, i) == PlayerFields(ShotId(j), i)[1]

\* The origins of the stored rows (column 4 is the first player cell).
StoredOrigins == {scoreboard.rows[k][4] : k \in 1..Len(scoreboard.rows)}

\* Stored rows that come from raw row i of the j-th screenshot.
Occurrences(j, i) ==
    Cardinality({k \in 1..Len(scoreboard.rows) :
                    scoreboard.rows[k][4] = Origin(j, i)})

IsStale(row) == \E k \in 1..Len(StaleRows) : StaleRows[k] = row

\* ------------------------------------------------------------------ claims
\* C1 (fail-fast propagation): once extraction raises for screenshot B, the
\* loop is left for the except clause; the store holds exactly the rows of
\* the screenshots before B, no later screenshot is ever read, nothing is
\* published, and the run reports the error and never the success message.
C1_FailFast ==
    exc = "TableNotFoundError" =>
        /\ pc \in {"except", "finally", "exited"}
        /\ images[ShotId(idx)].state = "raises"
        /\ scoreboard.rows = StoreThrough(idx - 1)
        /\ \A j \in (idx + 1)..Len(screenshots) : images[ShotId(j)] = Unread
        /\ ~Said(SuccessMsg)
        /\ ~clipboard.copied
        /\ pc \in {"finally", "exited"} => Said(ErrorMsg("TableNotFoundError"))

C1_Witness ==
    /\ pc = "exited"
    /\ exc = "TableNotFoundError"
    /\ idx = 2
    /\ Len(screenshots) = 3
    /\ scoreboard.rows # <<>>

\* C2 (append ordering): at every point after the reset, each of the k
\* screenshots whose iteration has ended has been extracted and the store
\* is rows(1) ++ ... ++ rows(k), so each is appended once, before the next
\* extraction starts, and earlier rows stay as they are; the finalizer
\* reads and publishes exactly the concatenation over all screenshots.
C2_AppendOrdering ==
    PastReset =>
        /\ \A j \in 1..Completed : images[ShotId(j)].state = "ok"
        /\ scoreboard.rows = StoreThrough(Completed)
        /\ scoreboard.exists <=> scoreboard.rows # <<>>
        /\ pc = "copy" => scoreboard_data = StoreThrough(Len(screenshots))
        /\ clipboard.copied =>
              clipboard.data = StoreThrough(Len(screenshots))

C2_Witness ==
    /\ clipboard.copied
    /\ Len(screenshots) = 3
    /\ \A j \in 1..3 : Team1Idx(j) # {}
    /\ \E j \in 1..3 : Cardinality(Team1Idx(j)) = 2
    /\ Len(clipboard.data) = 4

\* C3 (team filter): a raw row is in the store exactly once if it is tagged
\* team1 and its screenshot has been appended, and not at all otherwise:
\* no two stored rows have the same origin, and the origins stored are
\* those of the team1 rows of the appended screenshots.
C3_TeamFilter ==
    PastReset =>
        /\ Cardinality(StoredOrigins) = Len(scoreboard.rows)
        /\ StoredOrigins =
              UNION {{Origin(j, i) : i \in Team1Idx(j)} : j \in 1..Completed}
        /\ \A j \in 1..Len(screenshots) : \A i \in 1..Len(TagsOf(j)) :
              TagsOf(j)[i] # "team1" => Origin(j, i) \notin StoredOrigins

C3_Witness ==
    /\ pc = "exited"
    /\ Len(screenshots) >= 2
    /\ \E j \in 1..Len(screenshots) :
          /\ j <= Completed
          /\ TagsOf(j) = <<"team2", "team1">>
          /\ Occurrences(j, 2) = 1
    /\ \E j \in 1..Len(screenshots) :
          /\ j <= Completed
          /\ TagsOf(j) = <<"team1", "team2">>

\* C4 (schema and positional alignment): every stored row is date, map and
\* agents[i] followed by the player fields of one raw row i, in order; it
\* has 3 + k columns and none of them is a team tag.
C4_Schema ==
    PastReset =>
        \A k \in 1..Len(scoreboard.rows) :
            \E j \in 1..Len(screenshots) : \E i \in 1..Len(TagsOf(j)) :
                LET r  == scoreboard.rows[k]
                    pf == PlayerFields(ShotId(j), i)
                IN  /\ r[4] = pf[1]
                    /\ r = ExpectedRow(j, i)
                    /\ Len(r) = 3 + Len(pf)
                    /\ SubSeq(r, 4, Len(r)) = pf
                    /\ \A c \in 1..Len(r) : r[c] \notin Teams

C4_Witness ==
    /\ PastReset
    /\ \E j \in 1..Len(screenshots) :
          /\ TagsOf(j) = <<"team2", "team1">>
          /\ \E k \in 1..Len(scoreboard.rows) :
                /\ scoreboard.rows[k] = ExpectedRow(j, 2)
                /\ scoreboard.rows[k][3] = "Sova"
                /\ scoreboard.rows[k][2] = "Bind"

NoInput ==
    \/ folder.kind # "dir"
    \/ SelectSeq(folder.entries, IsScreenshot) = <<>>

\* C6 (no-input outcome): with no input the run ends early: no screenshot
\* is processed, the read-back and publish steps are not entered and no
\* error is raised or reported.
C6_NoInput ==
    (PastReset /\ NoInput) =>
        /\ pc \notin {"extract", "read", "copy", "except"}
        /\ exc = "none"
        /\ ~ReportedError

\* Every screenshot of the batch is read without an adapter error and with
\* an agent for every row.
NoAdapterError ==
    \A j \in 1..Len(screenshots) :
        /\ images[ShotId(j)].state = "ok"
        /\ images[ShotId(j)].nagents >= Len(TagsOf(j))

\* C7 (empty team filter is non-fatal): a run over a batch with no adapter
\* error, in which some screenshots have no team1 row, and in which the
\* cleanup does not fail, ends with the rows of the other screenshots in
\* the store and reports success, not failure.
C7_EmptyFilterNonFatal ==
    (/\ pc = "exited"
     /\ PastReset
     /\ screenshots # <<>>
     /\ NoAdapterError
     /\ \E j \in 1..Len(screenshots) : Team1Idx(j) = {}
     /\ exc # "PermissionError")
        => /\ scoreboard.rows = StoreThrough(Len(screenshots))
           /\ Said(SuccessMsg)
           /\ ~ReportedError

\* C8 (shared shutdown path): wait_for_user is reached exactly once per run
\* and is the last thing the run does.
C8_SharedShutdown ==
    /\ waits <= 1
    /\ waits = 1 => pc = "exited"
    /\ pc = "exited" => waits = 1

\* The j-th screenshot has been read with a number of agents different
\* from its number of rows, and its merge has run.
MismatchMerged(j) ==
    /\ images[ShotId(j)].state = "ok"
    /\ images[ShotId(j)].nagents # Len(TagsOf(j))
    /\ \/ j < idx
       \/ j = idx /\ pc \notin {"extract", "transform"}

\* C9 (index-correspondence violation is fatal): a screenshot with fewer or
\* more agents than rows aborts the run with IndexError and none of its
\* rows is in the store.
C9_MismatchFatal ==
    PastReset =>
        \A j \in 1..Len(screenshots) :
            MismatchMerged(j) =>
                /\ exc = "IndexError"
                /\ pc \in {"except", "finally", "exited"}
                /\ \A i \in 1..Len(TagsOf(j)) : Occurrences(j, i) = 0

\* C10 (cleanup is best-effort): a run whose loop ended without error and
\* whose store exists publishes the whole store and reports success,
\* whether or not removing temp_headshot.png failed.
C10_CleanupBestEffort ==
    (/\ pc = "exited"
     /\ Said("Cleaning up temporary files")
     /\ scoreboard.exists)
        => /\ clipboard.copied
           /\ clipboard.data = scoreboard.rows
           /\ Said(SuccessMsg)
           /\ ~ReportedError

====
